---- MODULE Spec2Model ----
(***************************************************************************)
(* A model of the task/board position ledger of ujikom-be:                 *)
(* TaskRepository (src/src/models/Task.js) behind TaskController           *)
(* (src/src/controllers/taskController.js) and BaseController              *)
(* (src/src/routes/taskRoutes.js), over the SQLite tables Board and Task.  *)
(* Every db.run / db.get / db.all is one atomic step of the store; the     *)
(* synchronous code of a callback is folded into the step that triggers it.*)
(***************************************************************************)
EXTENDS Integers, Sequences, FiniteSets, TLC

VARIABLES
  tasks,        \* table Task: stored id -> [title, position, board_id]
  boards,       \* table Board: the set of stored board ids
  nextId,       \* the id AUTOINCREMENT hands to the next inserted task
  foreignKeys,  \* whether the connection enforces FOREIGN KEY clauses
  faulty,       \* whether store calls can return an error in this behaviour
  ops,          \* per request: the operation in flight, its arguments and locals
  opCount       \* number of operations started so far

vars == <<tasks, boards, nextId, foreignKeys, faulty, ops, opCount>>

\* the outcomes of one store call: TRUE it runs, FALSE it returns an error
Outcomes == IF faulty THEN BOOLEAN ELSE {TRUE}

---------------------------------------------------------------------------
(* Bounds of the model *)

\* tasks in the initial store
MaxInit == 3
\* largest task id the store hands out
MaxId == 5
\* largest position a caller passes
MaxPos == 3
\* operations started in one behaviour
MaxOps == 2
\* boards in the initial store
NBoards == 2

Procs == {1, 2}
BoardIds == 1 .. NBoards
\* board ids a caller passes: 0 is a falsy board_id, NBoards + 1 names no board
BoardArgs == 0 .. (NBoards + 1)
\* task ids a caller passes: 0 is a falsy id, MaxInit + 1 is not stored at first
IdArgs == 0 .. (MaxInit + 1)
\* "" is the empty title, " " a whitespace-only one
TitleArgs == {"", " ", "D"}
PosArgs == (0 - 1) .. MaxPos

InitTitle(i) == <<"A", "B", "C", "E", "F">>[i]

---------------------------------------------------------------------------
(* Error messages of the source *)

ErrRequired == "title, position, and board_id are required"
ErrInvalid == "Invalid task data"
ErrSqlite == "SQLITE_ERROR"
ErrConstraint == "SQLITE_CONSTRAINT"
ErrTitle == "Title harus berupa string yang tidak kosong"
ErrPosition == "Position harus berupa angka non-negatif"
ErrBoardId == "Board ID harus berupa angka positif"
ErrValidation == "validation.errors.join"
ErrBothIds == "Both task IDs are required"
ErrTask1 == "Task 1 not found"
ErrTask2 == "Task 2 not found"
ErrIdAndPos == "Task ID and new position are required"
ErrTaskNotFound == "Task not found"
ErrIdAndBoard == "Task ID and new board ID are required"
ErrSameBoard == "Task is already in this board"
ErrCtlIds == "taskId1 dan taskId2 harus disediakan"
ErrCtlIdPos == "Task ID dan newPosition harus disediakan"
ErrCtlNumber == "Task ID dan newPosition harus berupa angka"
ErrCtlMoveIds == "taskId dan newBoardId harus disediakan"
ErrCtlMovePos == "newPosition harus berupa angka non-negatif"

---------------------------------------------------------------------------
(* The store: SQL statements as operators on the Task table *)

IdsOf(s, b) == {i \in DOMAIN s : s[i].board_id = b}

PositionsOf(s, b) == {s[i].position : i \in IdsOf(s, b)}

\* positions of board b are exactly 0 .. n-1, without duplicates
Dense(s, b) ==
  /\ PositionsOf(s, b) = 0 .. (Cardinality(IdsOf(s, b)) - 1)
  /\ \A i, j \in IdsOf(s, b) : s[i].position = s[j].position => i = j

AllDense(s) == \A b \in {s[i].board_id : i \in DOMAIN s} : Dense(s, b)

\* INSERT INTO Task (title, position, board_id) VALUES (?, ?, ?)
SqlInsert(s, id, title, position, board_id) ==
  [i \in DOMAIN s \cup {id} |->
     IF i = id
     THEN [title |-> title, position |-> position, board_id |-> board_id]
     ELSE s[i]]

\* the statement with WHERE id >= ?
SqlDeleteFrom(s, id) == [i \in {j \in DOMAIN s : j < id} |-> s[i]]

\* DELETE FROM Task WHERE id = ?
SqlDelete(s, id) == [i \in DOMAIN s \ {id} |-> s[i]]

\* the statement without its WHERE clause
SqlSetPositionAll(s, id, position) ==
  [i \in DOMAIN s |-> [s[i] EXCEPT !.position = position]]

\* UPDATE Task SET position = ? WHERE id = ?
SqlSetPosition(s, id, position) ==
  [i \in DOMAIN s |-> IF i = id THEN [s[i] EXCEPT !.position = position] ELSE s[i]]

\* the statement with position > ? for position >= ?
SqlShiftUpExclusive(s, board_id, lo, hi) ==
  [i \in DOMAIN s |->
     IF s[i].board_id = board_id /\ s[i].position > lo /\ s[i].position < hi
     THEN [s[i] EXCEPT !.position = @ + 1]
     ELSE s[i]]

\* UPDATE Task SET position = position + 1
\*   WHERE board_id = ? AND position >= ? AND position < ?
SqlShiftUp(s, board_id, lo, hi) ==
  [i \in DOMAIN s |->
     IF s[i].board_id = board_id /\ s[i].position >= lo /\ s[i].position < hi
     THEN [s[i] EXCEPT !.position = @ + 1]
     ELSE s[i]]

\* the statement without position > ? in its WHERE clause
SqlShiftDownFromStart(s, board_id, lo, hi) ==
  [i \in DOMAIN s |->
     IF s[i].board_id = board_id /\ s[i].position <= hi
     THEN [s[i] EXCEPT !.position = @ - 1]
     ELSE s[i]]

\* the statement without board_id = ? in its WHERE clause
SqlShiftDownAnyBoard(s, board_id, lo, hi) ==
  [i \in DOMAIN s |->
     IF s[i].position > lo /\ s[i].position <= hi
     THEN [s[i] EXCEPT !.position = @ - 1]
     ELSE s[i]]

\* the statement with position < ? for position <= ?
SqlShiftDownExclusive(s, board_id, lo, hi) ==
  [i \in DOMAIN s |->
     IF s[i].board_id = board_id /\ s[i].position > lo /\ s[i].position < hi
     THEN [s[i] EXCEPT !.position = @ - 1]
     ELSE s[i]]

\* UPDATE Task SET position = position - 1
\*   WHERE board_id = ? AND position > ? AND position <= ?
SqlShiftDown(s, board_id, lo, hi) ==
  [i \in DOMAIN s |->
     IF s[i].board_id = board_id /\ s[i].position > lo /\ s[i].position <= hi
     THEN [s[i] EXCEPT !.position = @ - 1]
     ELSE s[i]]

\* the move done as DELETE and INSERT: the row comes back under a new id
SqlSetBoardAsNewRow(s, id, board_id, position) ==
  LET n == 1 + CHOOSE m \in DOMAIN s : \A i \in DOMAIN s : i <= m IN
  [i \in (DOMAIN s \ {id}) \cup {n} |->
     IF i = n THEN [s[id] EXCEPT !.board_id = board_id, !.position = position]
     ELSE s[i]]

\* the UPDATE with its first two parameters bound in the other order
SqlSetBoardSwapped(s, id, board_id, position) ==
  [i \in DOMAIN s |->
     IF i = id THEN [s[i] EXCEPT !.board_id = position, !.position = board_id]
     ELSE s[i]]

\* UPDATE Task SET board_id = ?, position = ? WHERE id = ?
SqlSetBoard(s, id, board_id, position) ==
  [i \in DOMAIN s |->
     IF i = id THEN [s[i] EXCEPT !.board_id = board_id, !.position = position]
     ELSE s[i]]

\* SELECT COALESCE(MAX(position), 0) as maxPos FROM Task WHERE board_id = ?
SqlMaxPos(s, board_id) ==
  IF IdsOf(s, board_id) = {} THEN 0
  ELSE CHOOSE m \in PositionsOf(s, board_id) :
         \A q \in PositionsOf(s, board_id) : q <= m

\* the statement without its ORDER BY clause
SqlRowsAnyOrder(s, board_id) ==
  LET ids == IdsOf(s, board_id)
      n == Cardinality(ids)
  IN {q \in [1 .. n -> ids] : \A x \in ids : \E k \in 1 .. n : q[k] = x}

\* SELECT id FROM Task WHERE board_id = ? ORDER BY position ASC: the row
\* orders the statement can return (rows of equal position come in any order)
SqlRowsByPosition(s, board_id) ==
  LET ids == IdsOf(s, board_id)
      n == Cardinality(ids)
  IN {q \in [1 .. n -> ids] :
        /\ \A x \in ids : \E k \in 1 .. n : q[k] = x
        /\ \A k \in 1 .. n : \A l \in 1 .. n :
             k < l => s[q[k]].position <= s[q[l]].position}

\* the FOREIGN KEY (board_id) REFERENCES Board(id) clause, when enforced
FkOk(fk, bs, board_id) == (~fk) \/ board_id \in bs

---------------------------------------------------------------------------
(* Requests *)

NoArgs ==
  [http |-> FALSE, id |-> 0, id2 |-> 0, title |-> "", posKind |-> "undefined",
   pos |-> 0, board |-> 0]

NoTask == [id |-> 0, title |-> "", position |-> 0, board_id |-> 0]

\* a request: its kind, position in the code (pc), arguments (a), the locals of
\* the repository method, and what the caller has seen: calls = number of times
\* the completion callback ran, err / ret = its arguments the first time,
\* status = the HTTP status sent. failed records that a store call of the
\* request returned an error; errors is the list validateRequest returned;
\* pre / preNext are the store when it was received.
IdleOp ==
  [kind |-> "idle", pc |-> "idle", a |-> NoArgs, calls |-> 0, err |-> "",
   status |-> 0, ret |-> NoTask, failed |-> FALSE, writes |-> 0,
   tempPosition |-> 0, task2Position |-> 0,
   boardId |-> 0, oldPosition |-> 0,
   oldBoardId |-> 0, taskTitle |-> "", finalPosition |-> 0,
   rows |-> << >>, pending |-> {}, updateCount |-> 0, stray |-> "none",
   errors |-> << >>, pre |-> << >>, preNext |-> 0]

\* the record of a request that has just been received
NewOp(kind, a) ==
  [IdleOp EXCEPT !.kind = kind, !.a = a, !.pre = tasks, !.preNext = nextId]

\* the completion callback of a repository method, and the response the
\* controller derives from it: okStatus on success, errStatus on error
\* (a second run of the callback is counted; the caller keeps the first outcome)
Respond(o, err, okStatus, errStatus) ==
  IF o.calls > 0
  THEN [o EXCEPT !.pc = "done", !.calls = @ + 1]
  ELSE [o EXCEPT !.pc = "done", !.calls = 1, !.err = err,
                 !.status = IF o.a.http
                            THEN (IF err = "" THEN okStatus ELSE errStatus)
                            ELSE 0]

\* BaseController.sendError called by the controller before the repository
SendError(o, statusCode, message) ==
  [o EXCEPT !.pc = "done", !.status = statusCode, !.err = message]

\* a store call of the request returned an error
Failed(o) == [o EXCEPT !.failed = TRUE]

\* the request has reported and has no store call outstanding
OpDone(o) == o.pc = "done" /\ o.stray # "pending" /\ o.pending = {}

\* String.prototype.trim on the titles of the model
Trim(t) == IF t = " " THEN "" ELSE t

\* a validator that returns at the first violation
ValidateRequestFirst(a) ==
  IF a.title = "" \/ Trim(a.title) = "" THEN <<ErrTitle>>
  ELSE IF a.posKind # "int" \/ a.pos < 0 THEN <<ErrPosition>>
  ELSE IF a.board = 0 \/ a.board <= 0 THEN <<ErrBoardId>>
  ELSE << >>

\* TaskController.validateRequest: the list of violation messages
ValidateRequest(a) ==
  (IF a.title = "" \/ Trim(a.title) = "" THEN <<ErrTitle>> ELSE << >>)
  \o (IF a.posKind # "int" \/ a.pos < 0 THEN <<ErrPosition>> ELSE << >>)
  \o (IF a.board = 0 \/ a.board <= 0 THEN <<ErrBoardId>> ELSE << >>)

\* the guard without the test of data.position
CreateRequiredNoPosition(a) == a.title = "" \/ a.board = 0

\* TaskRepository.create, first guard: a required field is missing
CreateRequired(a) ==
  a.title = "" \/ a.posKind = "undefined" \/ a.board = 0

\* typeof x === "number", by the kind of x: an integer ("int") or a number
\* with a fractional part ("float"), as against undefined and null
TypeofNumber(kind) == kind \in {"int", "float"}

\* Task.validate
TaskValidate(a) ==
  /\ a.title # ""
  /\ Trim(a.title) # ""
  /\ TypeofNumber(a.posKind)
  /\ a.pos >= 0
  /\ a.board > 0

\* the requests a caller can make; h: through the controller (HTTP) or not
CreateArgs(h) ==
  {[NoArgs EXCEPT !.http = h, !.title = t, !.posKind = "int", !.pos = q, !.board = b] :
     t \in TitleArgs, q \in PosArgs, b \in BoardArgs}
  \cup
  {[NoArgs EXCEPT !.http = h, !.title = t, !.board = b] :
     t \in TitleArgs, b \in BoardArgs}

DeleteArgs(h) == {[NoArgs EXCEPT !.http = h, !.id = i] : i \in IdArgs}

CanCall(p) == (ops[p].pc = "idle" \/ OpDone(ops[p])) /\ opCount < MaxOps

---------------------------------------------------------------------------
(* CreateItem: TaskController.create -> BaseController.create ->           *)
(* TaskRepository.create                                                   *)

CallCreate(p, Args) ==
  /\ CanCall(p)
  /\ \E a \in Args :
       LET validation == IF a.http THEN ValidateRequest(a) ELSE << >>
           o == [NewOp("create", a) EXCEPT !.errors = validation]
       IN
       ops' = [ops EXCEPT ![p] =
         IF a.http /\ validation # << >>
         THEN SendError(o, 400, ErrValidation)
         ELSE IF CreateRequired(a) THEN Respond(o, ErrRequired, 201, 400)
         ELSE IF ~TaskValidate(a) THEN Respond(o, ErrInvalid, 201, 400)
         ELSE [o EXCEPT !.pc = "insert"]]
  /\ opCount' = opCount + 1
  /\ UNCHANGED <<tasks, boards, nextId, foreignKeys, faulty>>

\* db.run("INSERT INTO Task ...") and its callback
CreateInsert(p) ==
  /\ ops[p].pc = "insert"
  /\ nextId <= MaxId
  /\ \E ok \in Outcomes :
       LET o == ops[p]
           a == o.a
       IN
       IF ~ok
       THEN /\ ops' = [ops EXCEPT ![p] =
                 Respond(Failed(o), ErrSqlite, 201, 400)]
            /\ UNCHANGED <<tasks, nextId>>
       ELSE IF ~FkOk(foreignKeys, boards, a.board)
       THEN /\ ops' = [ops EXCEPT ![p] = Respond(o, ErrConstraint, 201, 400)]
            /\ UNCHANGED <<tasks, nextId>>
       ELSE /\ tasks' = SqlInsert(tasks, nextId, a.title, a.pos, a.board)
            /\ nextId' = nextId + 1
            /\ ops' = [ops EXCEPT ![p] =
                 Respond([o EXCEPT !.writes = 1,
                                   !.ret = [id |-> nextId, title |-> a.title,
                                            position |-> a.pos, board_id |-> a.board]],
                         "", 201, 400)]
  /\ UNCHANGED <<boards, foreignKeys, faulty, opCount>>

---------------------------------------------------------------------------
(* DeleteItem: BaseController.delete -> TaskRepository.delete *)

CallDelete(p, Args) ==
  /\ CanCall(p)
  /\ \E a \in Args :
       ops' = [ops EXCEPT ![p] = [NewOp("delete", a) EXCEPT !.pc = "delete"]]
  /\ opCount' = opCount + 1
  /\ UNCHANGED <<tasks, boards, nextId, foreignKeys, faulty>>

\* db.run("DELETE FROM Task WHERE id = ?") and its callback
DeleteRun(p) ==
  /\ ops[p].pc = "delete"
  /\ \E ok \in Outcomes :
       LET o == ops[p] IN
       IF ~ok
       THEN /\ ops' = [ops EXCEPT ![p] =
                 Respond(Failed(o), ErrSqlite, 200, 500)]
            /\ UNCHANGED tasks
       ELSE /\ tasks' = SqlDelete(tasks, o.a.id)
            /\ ops' = [ops EXCEPT ![p] = Respond([o EXCEPT !.writes = 1], "", 200, 500)]
  /\ UNCHANGED <<boards, nextId, foreignKeys, faulty, opCount>>

---------------------------------------------------------------------------
(* Reading a board: TaskRepository.getByBoardId *)

GetByBoardIdArgs(h) == {[NoArgs EXCEPT !.http = h, !.board = b] : b \in BoardArgs}

CallGetByBoardId(p, Args) ==
  /\ CanCall(p)
  /\ \E a \in Args :
       ops' = [ops EXCEPT ![p] = [NewOp("getByBoardId", a) EXCEPT !.pc = "get_board"]]
  /\ opCount' = opCount + 1
  /\ UNCHANGED <<tasks, boards, nextId, foreignKeys, faulty>>

\* db.all("SELECT * FROM Task WHERE board_id = ? ORDER BY position ASC") and
\* its callback: rows holds the ids of the Task objects handed to the caller
GetByBoardIdAll(p) ==
  /\ ops[p].pc = "get_board"
  /\ \E ok \in Outcomes :
       LET o == ops[p] IN
       IF ~ok
       THEN ops' = [ops EXCEPT ![p] = Respond(Failed(o), ErrSqlite, 200, 500)]
       ELSE \E rows \in SqlRowsByPosition(tasks, o.a.board) :
              ops' = [ops EXCEPT ![p] = Respond([o EXCEPT !.rows = rows], "", 200, 500)]
  /\ UNCHANGED <<tasks, boards, nextId, foreignKeys, faulty, opCount>>

---------------------------------------------------------------------------
(* Board deletion: BaseController.delete -> BoardRepository.delete *)

DeleteBoardArgs(h) == {[NoArgs EXCEPT !.http = h, !.board = b] : b \in BoardArgs}

CallDeleteBoard(p, Args) ==
  /\ CanCall(p)
  /\ \E a \in Args :
       ops' = [ops EXCEPT ![p] = [NewOp("deleteBoard", a) EXCEPT !.pc = "delete_board"]]
  /\ opCount' = opCount + 1
  /\ UNCHANGED <<tasks, boards, nextId, foreignKeys, faulty>>

\* the Task table declared without ON DELETE CASCADE
SqlCascadeNone(s, fk, board_id) == s

\* FOREIGN KEY (board_id) REFERENCES Board(id) ON DELETE CASCADE: the Task
\* rows left when the Board row is deleted; fk: the connection enforces it
SqlCascade(s, fk, board_id) ==
  IF fk THEN [i \in DOMAIN s \ IdsOf(s, board_id) |-> s[i]] ELSE s

\* db.run("DELETE FROM Board WHERE id = ?") and its callback
DeleteBoardRun(p) ==
  /\ ops[p].pc = "delete_board"
  /\ \E ok \in Outcomes :
       LET o == ops[p] IN
       IF ~ok
       THEN /\ ops' = [ops EXCEPT ![p] =
                 Respond(Failed(o), ErrSqlite, 200, 500)]
            /\ UNCHANGED <<tasks, boards>>
       ELSE /\ boards' = boards \ {o.a.board}
            /\ tasks' = SqlCascade(tasks, foreignKeys, o.a.board)
            /\ ops' = [ops EXCEPT ![p] = Respond([o EXCEPT !.writes = 1], "", 200, 500)]
  /\ UNCHANGED <<nextId, foreignKeys, faulty, opCount>>

---------------------------------------------------------------------------
(* SwapPositions: TaskController.reorder -> TaskRepository.reorder *)

ReorderArgs(h) ==
  {[NoArgs EXCEPT !.http = h, !.id = i, !.id2 = j] : i \in IdArgs, j \in IdArgs}

CallReorder(p, Args) ==
  /\ CanCall(p)
  /\ \E a \in Args :
       LET o == NewOp("reorder", a) IN
       ops' = [ops EXCEPT ![p] =
         IF a.http /\ (a.id = 0 \/ a.id2 = 0) THEN SendError(o, 400, ErrCtlIds)
         ELSE IF a.id = 0 \/ a.id2 = 0 THEN Respond(o, ErrBothIds, 200, 400)
         ELSE [o EXCEPT !.pc = "get1"]]
  /\ opCount' = opCount + 1
  /\ UNCHANGED <<tasks, boards, nextId, foreignKeys, faulty>>

\* db.get("SELECT * FROM Task WHERE id = ?", [taskId1]) and its callback
ReorderGet1(p) ==
  /\ ops[p].pc = "get1"
  /\ \E ok \in Outcomes :
       LET o == ops[p] IN
       ops' = [ops EXCEPT ![p] =
         IF ~ok THEN Respond(Failed(o), ErrSqlite, 200, 400)
         ELSE IF o.a.id \notin DOMAIN tasks THEN Respond(o, ErrTask1, 200, 400)
         ELSE [o EXCEPT !.pc = "get2", !.tempPosition = tasks[o.a.id].position]]
  /\ UNCHANGED <<tasks, boards, nextId, foreignKeys, faulty, opCount>>

\* the second lookup reporting a missing row with the message of the first
ReorderGet2AsTask1(p) ==
  /\ ops[p].pc = "get2"
  /\ \E ok \in Outcomes :
       LET o == ops[p] IN
       ops' = [ops EXCEPT ![p] =
         IF ~ok THEN Respond(Failed(o), ErrSqlite, 200, 400)
         ELSE IF o.a.id2 \notin DOMAIN tasks THEN Respond(o, ErrTask1, 200, 400)
         ELSE [o EXCEPT !.pc = "set1", !.task2Position = tasks[o.a.id2].position]]
  /\ UNCHANGED <<tasks, boards, nextId, foreignKeys, faulty, opCount>>

\* db.get("SELECT * FROM Task WHERE id = ?", [taskId2]) and its callback
ReorderGet2(p) ==
  /\ ops[p].pc = "get2"
  /\ \E ok \in Outcomes :
       LET o == ops[p] IN
       ops' = [ops EXCEPT ![p] =
         IF ~ok THEN Respond(Failed(o), ErrSqlite, 200, 400)
         ELSE IF o.a.id2 \notin DOMAIN tasks THEN Respond(o, ErrTask2, 200, 400)
         ELSE [o EXCEPT !.pc = "set1", !.task2Position = tasks[o.a.id2].position]]
  /\ UNCHANGED <<tasks, boards, nextId, foreignKeys, faulty, opCount>>

\* db.run("UPDATE Task SET position = ? WHERE id = ?", [task2.position, taskId1])
ReorderSet1(p) ==
  /\ ops[p].pc = "set1"
  /\ \E ok \in Outcomes :
       LET o == ops[p] IN
       IF ~ok
       THEN /\ ops' = [ops EXCEPT ![p] = Respond(Failed(o), ErrSqlite, 200, 400)]
            /\ UNCHANGED tasks
       ELSE /\ tasks' = SqlSetPosition(tasks, o.a.id, o.task2Position)
            /\ ops' = [ops EXCEPT ![p] = [o EXCEPT !.pc = "set2", !.writes = @ + 1]]
  /\ UNCHANGED <<boards, nextId, foreignKeys, faulty, opCount>>

\* db.run("UPDATE Task SET position = ? WHERE id = ?", [tempPosition, taskId2])
ReorderSet2(p) ==
  /\ ops[p].pc = "set2"
  /\ \E ok \in Outcomes :
       LET o == ops[p] IN
       IF ~ok
       THEN /\ ops' = [ops EXCEPT ![p] = Respond(Failed(o), ErrSqlite, 200, 400)]
            /\ UNCHANGED tasks
       ELSE /\ tasks' = SqlSetPosition(tasks, o.a.id2, o.tempPosition)
            /\ ops' = [ops EXCEPT ![p] =
                 Respond([o EXCEPT !.writes = @ + 1], "", 200, 400)]
  /\ UNCHANGED <<boards, nextId, foreignKeys, faulty, opCount>>

---------------------------------------------------------------------------
(* MoveWithinPartition: TaskController.reorderByPosition ->                *)
(* TaskRepository.reorderByPosition                                        *)

\* Number.isInteger on a value of the given JavaScript type
NumberIsInteger(type) == type = "int"

\* the type of req.params.id: Express hands path parameters over as strings
PathParamType == "string"

\* the comparison left out
SamePositionNever(oldPosition, newPosition) == FALSE

\* if (oldPosition === newPosition)
SamePosition(oldPosition, newPosition) == oldPosition = newPosition

ReorderByPositionArgs(h) ==
  {[NoArgs EXCEPT !.http = h, !.id = i, !.posKind = "int", !.pos = q] :
     i \in IdArgs, q \in PosArgs}
  \cup {[NoArgs EXCEPT !.http = h, !.id = i] : i \in IdArgs}

CallReorderByPosition(p, Args) ==
  /\ CanCall(p)
  /\ \E a \in Args :
       LET o == NewOp("reorderByPosition", a) IN
       ops' = [ops EXCEPT ![p] =
         IF a.http /\ a.posKind = "undefined" THEN SendError(o, 400, ErrCtlIdPos)
         ELSE IF a.http /\ (~NumberIsInteger(PathParamType)
                              \/ ~NumberIsInteger(a.posKind))
           THEN SendError(o, 400, ErrCtlNumber)
         ELSE IF a.http /\ a.pos < 0 THEN SendError(o, 400, ErrCtlMovePos)
         ELSE IF a.id = 0 \/ a.posKind = "undefined"
           THEN Respond(o, ErrIdAndPos, 200, 400)
         ELSE [o EXCEPT !.pc = "rp_get"]]
  /\ opCount' = opCount + 1
  /\ UNCHANGED <<tasks, boards, nextId, foreignKeys, faulty>>

\* db.get("SELECT * FROM Task WHERE id = ?", [taskId]) and its callback
ReorderByPositionGet(p) ==
  /\ ops[p].pc = "rp_get"
  /\ \E ok \in Outcomes :
       LET o == ops[p] IN
       ops' = [ops EXCEPT ![p] =
         IF ~ok THEN Respond(Failed(o), ErrSqlite, 200, 400)
         ELSE IF o.a.id \notin DOMAIN tasks THEN Respond(o, ErrTaskNotFound, 200, 400)
         ELSE IF SamePosition(tasks[o.a.id].position, o.a.pos)
           THEN Respond(o, "", 200, 400)
         ELSE [o EXCEPT !.pc = "rp_shift",
                        !.boardId = tasks[o.a.id].board_id,
                        !.oldPosition = tasks[o.a.id].position]]
  /\ UNCHANGED <<tasks, boards, nextId, foreignKeys, faulty, opCount>>

\* the range update: position + 1 when moving up, position - 1 when moving down
ReorderByPositionShift(p) ==
  /\ ops[p].pc = "rp_shift"
  /\ \E ok \in Outcomes :
       LET o == ops[p] IN
       IF ~ok
       THEN /\ ops' = [ops EXCEPT ![p] = Respond(Failed(o), ErrSqlite, 200, 400)]
            /\ UNCHANGED tasks
       ELSE /\ tasks' = IF o.a.pos < o.oldPosition
                        THEN SqlShiftUp(tasks, o.boardId, o.a.pos, o.oldPosition)
                        ELSE SqlShiftDown(tasks, o.boardId, o.oldPosition, o.a.pos)
            /\ ops' = [ops EXCEPT ![p] = [o EXCEPT !.pc = "rp_set", !.writes = @ + 1]]
  /\ UNCHANGED <<boards, nextId, foreignKeys, faulty, opCount>>

\* db.run("UPDATE Task SET position = ? WHERE id = ?", [newPosition, taskId])
ReorderByPositionSet(p) ==
  /\ ops[p].pc = "rp_set"
  /\ \E ok \in Outcomes :
       LET o == ops[p] IN
       IF ~ok
       THEN /\ ops' = [ops EXCEPT ![p] = Respond(Failed(o), ErrSqlite, 200, 400)]
            /\ UNCHANGED tasks
       ELSE /\ tasks' = SqlSetPosition(tasks, o.a.id, o.a.pos)
            /\ ops' = [ops EXCEPT ![p] =
                 Respond([o EXCEPT !.writes = @ + 1], "", 200, 400)]
  /\ UNCHANGED <<boards, nextId, foreignKeys, faulty, opCount>>

---------------------------------------------------------------------------
(* RelocateToPartition: TaskController.move -> TaskRepository.moveToBoard *)

\* the comparison left out
SameBoardNever(oldBoardId, newBoardId) == FALSE

\* if (oldBoardId === newBoardId)
SameBoard(oldBoardId, newBoardId) == oldBoardId = newBoardId

\* newPosition is absent (undefined), null, or an integer
MoveArgs(h) ==
  {[NoArgs EXCEPT !.http = h, !.id = i, !.board = b, !.posKind = "int", !.pos = q] :
     i \in IdArgs, b \in BoardArgs, q \in PosArgs}
  \cup
  {[NoArgs EXCEPT !.http = h, !.id = i, !.board = b, !.posKind = k] :
     i \in IdArgs, b \in BoardArgs, k \in {"undefined", "null"}}

\* the Task object built from the row that was read, board included
UpdatedTaskAsRead(o) ==
  [id |-> o.a.id, title |-> o.taskTitle, position |-> o.finalPosition,
   board_id |-> o.oldBoardId]

\* the Task object moveToBoard hands to its callback on success
UpdatedTask(o) ==
  [id |-> o.a.id, title |-> o.taskTitle, position |-> o.finalPosition,
   board_id |-> o.a.board]

CallMove(p, Args) ==
  /\ CanCall(p)
  /\ \E a \in Args :
       LET o == NewOp("move", a) IN
       ops' = [ops EXCEPT ![p] =
         IF a.http /\ (a.id = 0 \/ a.board = 0) THEN SendError(o, 400, ErrCtlMoveIds)
         ELSE IF a.http /\ a.posKind = "int" /\ a.pos < 0
           THEN SendError(o, 400, ErrCtlMovePos)
         ELSE IF a.id = 0 \/ a.board = 0 THEN Respond(o, ErrIdAndBoard, 200, 400)
         ELSE [o EXCEPT !.pc = "mv_get"]]
  /\ opCount' = opCount + 1
  /\ UNCHANGED <<tasks, boards, nextId, foreignKeys, faulty>>

\* db.get("SELECT * FROM Task WHERE id = ?", [taskId]) and its callback, which
\* with newPosition undefined issues two reads: the one whose result becomes
\* positionToUse (never used; "stray") and the COALESCE(MAX(position), 0) one
MoveGet(p) ==
  /\ ops[p].pc = "mv_get"
  /\ \E ok \in Outcomes :
       LET o == ops[p] IN
       ops' = [ops EXCEPT ![p] =
         IF ~ok THEN Respond(Failed(o), ErrSqlite, 200, 400)
         ELSE IF o.a.id \notin DOMAIN tasks THEN Respond(o, ErrTaskNotFound, 200, 400)
         ELSE IF SameBoard(tasks[o.a.id].board_id, o.a.board)
           THEN Respond(o, ErrSameBoard, 200, 400)
         ELSE IF o.a.posKind = "undefined"
           THEN [o EXCEPT !.pc = "mv_max", !.stray = "pending",
                          !.oldBoardId = tasks[o.a.id].board_id,
                          !.taskTitle = tasks[o.a.id].title]
         ELSE [o EXCEPT !.pc = "mv_set",
                        !.oldBoardId = tasks[o.a.id].board_id,
                        !.taskTitle = tasks[o.a.id].title,
                        !.finalPosition = o.a.pos]]
  /\ UNCHANGED <<tasks, boards, nextId, foreignKeys, faulty, opCount>>

\* the stray db.get("SELECT MAX(position) ..."): its callback reports an error
\* to the caller and otherwise returns a value nobody reads; either way the
\* chain started by the other db.get goes on from where it is
MoveStray(p) ==
  /\ ops[p].stray = "pending"
  /\ \E ok \in Outcomes :
       LET o == [ops[p] EXCEPT !.stray = "done"] IN
       ops' = [ops EXCEPT ![p] =
         IF ~ok
         THEN [Respond(Failed(o), ErrSqlite, 200, 400) EXCEPT !.pc = o.pc]
         ELSE o]
  /\ UNCHANGED <<tasks, boards, nextId, foreignKeys, faulty, opCount>>

\* db.get("SELECT COALESCE(MAX(position), 0) as maxPos ...") and its callback
MoveMax(p) ==
  /\ ops[p].pc = "mv_max"
  /\ \E ok \in Outcomes :
       LET o == ops[p] IN
       ops' = [ops EXCEPT ![p] =
         IF ~ok THEN Respond(Failed(o), ErrSqlite, 200, 400)
         ELSE [o EXCEPT !.pc = "mv_set",
                        !.finalPosition = SqlMaxPos(tasks, o.a.board) + 1]]
  /\ UNCHANGED <<tasks, boards, nextId, foreignKeys, faulty, opCount>>

\* db.run("UPDATE Task SET board_id = ?, position = ? WHERE id = ?"): a null
\* position violates NOT NULL, an unknown board the foreign key when enforced
MoveSet(p) ==
  /\ ops[p].pc = "mv_set"
  /\ \E ok \in Outcomes :
       LET o == ops[p] IN
       IF ~ok
       THEN /\ ops' = [ops EXCEPT ![p] = Respond(Failed(o), ErrSqlite, 200, 400)]
            /\ UNCHANGED tasks
       ELSE IF o.a.posKind = "null" \/ ~FkOk(foreignKeys, boards, o.a.board)
       THEN /\ ops' = [ops EXCEPT ![p] = Respond(o, ErrConstraint, 200, 400)]
            /\ UNCHANGED tasks
       ELSE /\ tasks' = SqlSetBoard(tasks, o.a.id, o.a.board, o.finalPosition)
            /\ ops' = [ops EXCEPT ![p] = [o EXCEPT !.pc = "mv_rows", !.writes = @ + 1]]
  /\ UNCHANGED <<boards, nextId, foreignKeys, faulty, opCount>>

\* db.all("SELECT id FROM Task WHERE board_id = ? ORDER BY position ASC",
\* [oldBoardId]) and its callback: an error or an empty result reports success;
\* otherwise rows.forEach issues one UPDATE per row
MoveRows(p) ==
  /\ ops[p].pc = "mv_rows"
  /\ \E ok \in Outcomes :
       LET o == ops[p] IN
       IF ~ok
       THEN ops' = [ops EXCEPT ![p] =
              Respond([Failed(o) EXCEPT !.ret = UpdatedTask(o)], "", 200, 400)]
       ELSE \E rows \in SqlRowsByPosition(tasks, o.oldBoardId) :
              ops' = [ops EXCEPT ![p] =
                IF rows = << >>
                THEN Respond([o EXCEPT !.ret = UpdatedTask(o)], "", 200, 400)
                ELSE [o EXCEPT !.pc = "mv_renumber", !.rows = rows,
                               !.pending = 1 .. Len(rows)]]
  /\ UNCHANGED <<tasks, boards, nextId, foreignKeys, faulty, opCount>>

\* the UPDATE of the forEach with a callback that does not count itself
MoveRenumberUncounted(p) ==
  /\ ops[p].pc = "mv_renumber"
  /\ \E k \in ops[p].pending : \E ok \in Outcomes :
       LET o == [ops[p] EXCEPT !.pending = @ \ {k},
                               !.failed = @ \/ ~ok,
                               !.writes = IF ok THEN @ + 1 ELSE @]
           index == k - 1
       IN
       /\ tasks' = IF ok THEN SqlSetPosition(tasks, o.rows[k], index + 1) ELSE tasks
       /\ ops' = [ops EXCEPT ![p] =
            IF o.updateCount = Len(o.rows)
            THEN Respond([o EXCEPT !.ret = UpdatedTask(o)], "", 200, 400)
            ELSE o]
  /\ UNCHANGED <<boards, nextId, foreignKeys, faulty, opCount>>

\* one db.run("UPDATE Task SET position = ? WHERE id = ?", [index + 1, row.id])
\* of the forEach, index counted from 0, and its callback, which ignores err
MoveRenumber(p) ==
  /\ ops[p].pc = "mv_renumber"
  /\ \E k \in ops[p].pending : \E ok \in Outcomes :
       LET o == [ops[p] EXCEPT !.pending = @ \ {k}, !.updateCount = @ + 1,
                               !.failed = @ \/ ~ok,
                               !.writes = IF ok THEN @ + 1 ELSE @]
           index == k - 1
       IN
       /\ tasks' = IF ok THEN SqlSetPosition(tasks, o.rows[k], index + 1) ELSE tasks
       /\ ops' = [ops EXCEPT ![p] =
            IF o.updateCount = Len(o.rows)
            THEN Respond([o EXCEPT !.ret = UpdatedTask(o)], "", 200, 400)
            ELSE o]
  /\ UNCHANGED <<boards, nextId, foreignKeys, faulty, opCount>>

---------------------------------------------------------------------------
(* The repository methods run alone, every store call succeeding: the set  *)
(* of stores [t: Task table, n: next id] a method can leave, from st.      *)

\* rows.forEach((row, index) => UPDATE ... position = index + 1), all applied
Renumbered(s, rows) ==
  [i \in DOMAIN s |->
     IF \E k \in 1 .. Len(rows) : rows[k] = i
     THEN [s[i] EXCEPT !.position = (CHOOSE k \in 1 .. Len(rows) : rows[k] = i)]
     ELSE s[i]]

RunCreate(st, a) ==
  IF CreateRequired(a) \/ ~TaskValidate(a) \/ ~FkOk(foreignKeys, boards, a.board)
  THEN {st}
  ELSE {[t |-> SqlInsert(st.t, st.n, a.title, a.pos, a.board), n |-> st.n + 1]}

RunDelete(st, a) == {[st EXCEPT !.t = SqlDelete(st.t, a.id)]}

RunReorder(st, a) ==
  IF a.id = 0 \/ a.id2 = 0 \/ a.id \notin DOMAIN st.t \/ a.id2 \notin DOMAIN st.t
  THEN {st}
  ELSE {[st EXCEPT !.t = SqlSetPosition(
                           SqlSetPosition(st.t, a.id, st.t[a.id2].position),
                           a.id2, st.t[a.id].position)]}

RunReorderByPosition(st, a) ==
  IF a.id = 0 \/ a.posKind = "undefined" \/ a.id \notin DOMAIN st.t
  THEN {st}
  ELSE LET old == st.t[a.id].position
           b == st.t[a.id].board_id
       IN IF old = a.pos THEN {st}
          ELSE {[st EXCEPT !.t = SqlSetPosition(
                   IF a.pos < old THEN SqlShiftUp(st.t, b, a.pos, old)
                                  ELSE SqlShiftDown(st.t, b, old, a.pos),
                   a.id, a.pos)]}

RunMove(st, a) ==
  IF a.id = 0 \/ a.board = 0 \/ a.id \notin DOMAIN st.t THEN {st}
  ELSE IF st.t[a.id].board_id = a.board \/ a.posKind = "null"
          \/ ~FkOk(foreignKeys, boards, a.board) THEN {st}
  ELSE LET old == st.t[a.id].board_id
           final == IF a.posKind = "undefined"
                    THEN SqlMaxPos(st.t, a.board) + 1 ELSE a.pos
           s1 == SqlSetBoard(st.t, a.id, a.board, final)
       IN {[st EXCEPT !.t = Renumbered(s1, rows)] : rows \in SqlRowsByPosition(s1, old)}

Run(st, kind, a) ==
  CASE kind = "create" -> RunCreate(st, a)
    [] kind = "delete" -> RunDelete(st, a)
    [] kind = "reorder" -> RunReorder(st, a)
    [] kind = "reorderByPosition" -> RunReorderByPosition(st, a)
    [] kind = "move" -> RunMove(st, a)
    [] OTHER -> {st}

\* the step-by-step methods and the methods run alone agree
RunAgrees ==
  \A p \in Procs :
    (OpDone(ops[p]) /\ ~ops[p].failed)
      => [t |-> tasks, n |-> nextId]
           \in Run([t |-> ops[p].pre, n |-> ops[p].preNext], ops[p].kind, ops[p].a)

---------------------------------------------------------------------------
(* Initial stores: every board dense, ids handed out in order *)

\* position of task i among the tasks 1..n of its board, by id
InitPosition(bd, i) == Cardinality({j \in 1 .. (i - 1) : bd[j] = bd[i]})

InitTasks(n, bd) ==
  [i \in 1 .. n |->
     [title |-> InitTitle(i), position |-> InitPosition(bd, i), board_id |-> bd[i]]]

Init ==
  /\ \E bd \in [1 .. MaxInit -> BoardIds] : tasks = InitTasks(MaxInit, bd)
  /\ nextId = MaxInit + 1
  /\ boards = BoardIds
  /\ foreignKeys \in BOOLEAN
  /\ faulty = TRUE
  /\ ops = [p \in Procs |-> IdleOp]
  /\ opCount = 0

\* the same stores, with a store whose calls all run; the requests of SpecConc
\* name stored boards only, so the foreign key never decides anything there
InitConc ==
  /\ \E bd \in [1 .. MaxInit -> BoardIds] : tasks = InitTasks(MaxInit, bd)
  /\ nextId = MaxInit + 1
  /\ boards = BoardIds
  /\ foreignKeys = FALSE
  /\ faulty = FALSE
  /\ ops = [p \in Procs |-> IdleOp]
  /\ opCount = 0

\* the store steps of the repository methods, for request p
StoreStep(p) ==
  \/ CreateInsert(p)
  \/ DeleteRun(p)
  \/ ReorderGet1(p)
  \/ ReorderGet2(p)
  \/ ReorderSet1(p)
  \/ ReorderSet2(p)
  \/ ReorderByPositionGet(p)
  \/ ReorderByPositionShift(p)
  \/ ReorderByPositionSet(p)
  \/ MoveGet(p)
  \/ MoveStray(p)
  \/ MoveMax(p)
  \/ MoveSet(p)
  \/ MoveRows(p)
  \/ MoveRenumber(p)

\* Spec: the repository methods called one after the other, with any arguments
LedgerCreateArgs == CreateArgs(FALSE)
LedgerDeleteArgs == DeleteArgs(FALSE)
LedgerReorderArgs == ReorderArgs(FALSE)
LedgerReorderByPositionArgs == ReorderByPositionArgs(FALSE)
LedgerMoveArgs == MoveArgs(FALSE)

Next ==
  \/ CallCreate(1, LedgerCreateArgs)
  \/ CallDelete(1, LedgerDeleteArgs)
  \/ CallReorder(1, LedgerReorderArgs)
  \/ CallReorderByPosition(1, LedgerReorderByPositionArgs)
  \/ CallMove(1, LedgerMoveArgs)
  \/ StoreStep(1)

Spec == Init /\ [][Next]_vars

\* SpecHttp: the same through the controllers, one request after the other
HttpCreateArgs == CreateArgs(TRUE)
HttpDeleteArgs == DeleteArgs(TRUE)
HttpReorderArgs == ReorderArgs(TRUE)
HttpReorderByPositionArgs == ReorderByPositionArgs(TRUE)
HttpMoveArgs == MoveArgs(TRUE)

NextHttp ==
  \/ CallCreate(1, HttpCreateArgs)
  \/ CallDelete(1, HttpDeleteArgs)
  \/ CallReorder(1, HttpReorderArgs)
  \/ CallReorderByPosition(1, HttpReorderByPositionArgs)
  \/ CallMove(1, HttpMoveArgs)
  \/ CreateInsert(1)
  \/ DeleteRun(1)
  \/ ReorderGet1(1)
  \/ ReorderGet2(1)
  \/ ReorderSet1(1)
  \/ ReorderSet2(1)
  \/ MoveGet(1)
  \/ MoveStray(1)
  \/ MoveMax(1)
  \/ MoveSet(1)
  \/ MoveRows(1)
  \/ MoveRenumber(1)

SpecHttp == Init /\ [][NextHttp]_vars

\* SpecConc: two requests, received in any order and at any time, their store
\* calls interleaved; the arguments name tasks and boards of the initial store
StoredIdArgs == 1 .. MaxInit

ConcCreateArgs ==
  {[NoArgs EXCEPT !.title = "D", !.posKind = "int", !.pos = q, !.board = b] :
     q \in 0 .. MaxPos, b \in BoardIds}

ConcDeleteArgs == {[NoArgs EXCEPT !.id = i] : i \in StoredIdArgs}

ConcReorderArgs ==
  {[NoArgs EXCEPT !.id = i, !.id2 = j] : i \in StoredIdArgs, j \in StoredIdArgs}

ConcReorderByPositionArgs ==
  {[NoArgs EXCEPT !.id = i, !.posKind = "int", !.pos = q] :
     i \in StoredIdArgs, q \in 0 .. MaxPos}

ConcMoveArgs ==
  {[NoArgs EXCEPT !.id = i, !.board = b, !.posKind = "int", !.pos = q] :
     i \in StoredIdArgs, b \in BoardIds, q \in 0 .. MaxPos}
  \cup
  {[NoArgs EXCEPT !.id = i, !.board = b] : i \in StoredIdArgs, b \in BoardIds}

\* A request is received when its first store call is issued; receiving it
\* changes nothing in the store, so both requests are taken as received before
\* the first store call runs, request 1 first.
FirstCall == {"insert", "delete", "get1", "rp_get", "mv_get"}

CanCallConc(p) ==
  /\ ops[p].pc = "idle"
  /\ p = 1 \/ ops[1].pc # "idle"
  /\ \A q \in Procs : ops[q].pc \in {"idle"} \cup FirstCall

NextConc ==
  \E p \in Procs :
    \/ CanCallConc(p) /\ CallCreate(p, ConcCreateArgs)
    \/ CanCallConc(p) /\ CallDelete(p, ConcDeleteArgs)
    \/ CanCallConc(p) /\ CallReorder(p, ConcReorderArgs)
    \/ CanCallConc(p) /\ CallReorderByPosition(p, ConcReorderByPositionArgs)
    \/ CanCallConc(p) /\ CallMove(p, ConcMoveArgs)
    \/ StoreStep(p)

SpecConc == InitConc /\ [][NextConc]_vars

\* SpecSwapTwice: two swaps one after the other, the second received once the
\* first has completed; ops[1] keeps the first, ops[2] the second
CanCallSecond(p) == ops[p].pc = "idle" /\ (p = 1 \/ OpDone(ops[1]))

NextSwapTwice ==
  \E p \in Procs :
    \/ CanCallSecond(p) /\ CallReorder(p, LedgerReorderArgs)
    \/ ReorderGet1(p)
    \/ ReorderGet2(p)
    \/ ReorderSet1(p)
    \/ ReorderSet2(p)

SpecSwapTwice == Init /\ [][NextSwapTwice]_vars

\* SpecRelocateTwice: two relocations with newPosition omitted, the second
\* called when the first has reported; ops[1] keeps the first, ops[2] the second
AppendMoveArgs ==
  {[NoArgs EXCEPT !.id = i, !.board = b] : i \in IdArgs, b \in BoardArgs}

NextRelocateTwice ==
  \E p \in Procs :
    \/ CanCallSecond(p) /\ CallMove(p, AppendMoveArgs)
    \/ MoveGet(p)
    \/ MoveStray(p)
    \/ MoveMax(p)
    \/ MoveSet(p)
    \/ MoveRows(p)
    \/ MoveRenumber(p)

SpecRelocateTwice == Init /\ [][NextRelocateTwice]_vars

\* SpecCascade: boards deleted and items created, one request after the
\* other, on a connection that enforces foreign keys
InitEnforced == Init /\ foreignKeys = TRUE

LedgerDeleteBoardArgs == DeleteBoardArgs(FALSE)

NextCascade ==
  \/ CallCreate(1, LedgerCreateArgs)
  \/ CreateInsert(1)
  \/ CallDeleteBoard(1, LedgerDeleteBoardArgs)
  \/ DeleteBoardRun(1)

SpecCascade == InitEnforced /\ [][NextCascade]_vars

\* SpecLive: one call of a repository method, with any arguments; every store
\* call that has been issued eventually completes
NextLive ==
  \/ opCount = 0 /\ CallCreate(1, LedgerCreateArgs)
  \/ opCount = 0 /\ CallDelete(1, LedgerDeleteArgs)
  \/ opCount = 0 /\ CallReorder(1, LedgerReorderArgs)
  \/ opCount = 0 /\ CallReorderByPosition(1, LedgerReorderByPositionArgs)
  \/ opCount = 0 /\ CallMove(1, LedgerMoveArgs)
  \/ StoreStep(1)

SpecLive == Init /\ [][NextLive]_vars /\ WF_vars(StoreStep(1))

\* SpecRead: boards read between creations and deletions of items, one
\* request after the other
LedgerGetByBoardIdArgs == GetByBoardIdArgs(FALSE)

NextRead ==
  \/ CallCreate(1, LedgerCreateArgs)
  \/ CreateInsert(1)
  \/ CallDelete(1, LedgerDeleteArgs)
  \/ DeleteRun(1)
  \/ CallGetByBoardId(1, LedgerGetByBoardIdArgs)
  \/ GetByBoardIdAll(1)

SpecRead == Init /\ [][NextRead]_vars

\* SpecDepth: TaskRepository.create called directly, also with positions
\* that are numbers but not integers (posKind "float": pos + 1/2, of which
\* the model's Task table keeps pos)
FloatCreateArgs ==
  {[NoArgs EXCEPT !.title = t, !.posKind = "float", !.pos = q, !.board = b] :
     t \in TitleArgs, q \in PosArgs, b \in BoardArgs}

DepthCreateArgs == LedgerCreateArgs \cup FloatCreateArgs

NextDepth ==
  \/ CallCreate(1, DepthCreateArgs)
  \/ CreateInsert(1)

SpecDepth == Init /\ [][NextDepth]_vars

\* SpecArrange: swaps of two items of one board and moves to a position of
\* the item's board, one call after the other, every store call running
SwapInBoard(a) == tasks[a.id].board_id = tasks[a.id2].board_id

MoveInRange(a) == a.pos < Cardinality(IdsOf(tasks, tasks[a.id].board_id))

NextArrange ==
  \/ CallReorder(1, ConcReorderArgs) /\ SwapInBoard(ops'[1].a)
  \/ CallReorderByPosition(1, ConcReorderByPositionArgs) /\ MoveInRange(ops'[1].a)
  \/ ReorderGet1(1)
  \/ ReorderGet2(1)
  \/ ReorderSet1(1)
  \/ ReorderSet2(1)
  \/ ReorderByPositionGet(1)
  \/ ReorderByPositionShift(1)
  \/ ReorderByPositionSet(1)

SpecArrange == InitConc /\ [][NextArrange]_vars

---------------------------------------------------------------------------
(* Vocabulary of the claims *)

Count(s, b) == Cardinality(IdsOf(s, b))

\* no request is in flight
Quiet == \A p \in Procs : ops[p].pc = "idle" \/ OpDone(ops[p])

NoFailure == \A p \in Procs : ~ops[p].failed

ValidTitle(t) == Trim(t) # ""

\* the error classes of the ledger, by the messages of the source
IsNotFound(err) == err \in {ErrTask1, ErrTask2, ErrTaskNotFound}

IsInvalidArgument(err) ==
  err \in {ErrRequired, ErrInvalid, ErrValidation, ErrBothIds, ErrIdAndPos,
           ErrIdAndBoard, ErrSameBoard, ErrCtlIds, ErrCtlIdPos, ErrCtlNumber,
           ErrCtlMoveIds, ErrCtlMovePos}

\* position and board of every item are as they were when request o was received
SamePlaces(o) ==
  /\ DOMAIN tasks = DOMAIN o.pre
  /\ \A i \in DOMAIN o.pre :
       /\ tasks[i].position = o.pre[i].position
       /\ tasks[i].board_id = o.pre[i].board_id

\* the boards whose positions request (kind, a) reads or writes, in store s
TouchedBoards(s, kind, a) ==
  {s[i].board_id : i \in {a.id, a.id2} \cap DOMAIN s}
  \cup (IF kind \in {"create", "move"} THEN {a.board} ELSE {})

\* the stores two requests leave when run one after the other, first (k1, a1)
Serial(st, k1, a1, k2, a2) == UNION {Run(s1, k2, a2) : s1 \in Run(st, k1, a1)}

---------------------------------------------------------------------------
(* The claims *)

\* C1 (as claimed): whenever no operation is in flight and no store call has
\* failed, every board is dense: its positions are exactly 0 .. n-1.
C1_DensityInvariant == (Quiet /\ NoFailure) => AllDense(tasks)

\* C2 (as claimed): when a swap, a move within a board or a relocation has
\* reported an error after one of its store calls failed, the position and
\* board of every item are what they were before the call.
C2_AllOrNothing ==
  \A p \in Procs :
    (/\ OpDone(ops[p])
     /\ ops[p].kind \in {"reorder", "reorderByPosition", "move"}
     /\ ops[p].failed
     /\ ops[p].err # "")
      => SamePlaces(ops[p])

\* C3 (as claimed): two operations on the same board whose store calls
\* interleave leave the store that running them one after the other, in one
\* of the two orders, leaves.
C3_Serializable ==
  (/\ \A p \in Procs : OpDone(ops[p])
   /\ TouchedBoards(ops[1].pre, ops[1].kind, ops[1].a)
        \cap TouchedBoards(ops[1].pre, ops[2].kind, ops[2].a) # {})
    => LET st == [t |-> ops[1].pre, n |-> ops[1].preNext] IN
       [t |-> tasks, n |-> nextId]
         \in Serial(st, ops[1].kind, ops[1].a, ops[2].kind, ops[2].a)
             \cup Serial(st, ops[2].kind, ops[2].a, ops[1].kind, ops[1].a)

\* C4 (as claimed): after two concurrent deletions of two different items of
\* one board have both completed, that board is dense.
C4_ConcurrentDeletesDense ==
  (/\ \A p \in Procs : OpDone(ops[p]) /\ ops[p].kind = "delete"
   /\ ops[1].a.id # ops[2].a.id
   /\ ops[1].pre[ops[1].a.id].board_id = ops[1].pre[ops[2].a.id].board_id)
    => Dense(tasks, ops[1].pre[ops[1].a.id].board_id)

\* C5 (as claimed): a creation at an explicit position p below the board's
\* item count succeeds, moves every item of the board at position >= p up by
\* one and stores the new item at p.
C5_CreateShifts ==
  \A p \in Procs :
    LET o == ops[p] IN
    (/\ OpDone(o) /\ o.kind = "create" /\ ~o.failed
     /\ ValidTitle(o.a.title) /\ o.a.board \in boards
     /\ o.a.posKind = "int" /\ 0 <= o.a.pos /\ o.a.pos < Count(o.pre, o.a.board))
      => /\ o.err = ""
         /\ o.ret.id \in DOMAIN tasks
         /\ tasks[o.ret.id].position = o.a.pos
         /\ \A i \in IdsOf(o.pre, o.a.board) :
              tasks[i].position =
                o.pre[i].position + (IF o.pre[i].position >= o.a.pos THEN 1 ELSE 0)

C7_CreateUnknownBoard ==
  \A p \in Procs :
    LET o == ops[p] IN
    (/\ OpDone(o) /\ o.kind = "create" /\ ~o.failed
     /\ ValidTitle(o.a.title) /\ o.a.posKind = "int" /\ o.a.pos >= 0
     /\ o.a.board > 0 /\ o.a.board \notin boards)
      => IsNotFound(o.err) /\ tasks = o.pre

\* C8 (as claimed): a creation at a position above the board's item count
\* fails with InvalidArgument and stores nothing; one at a position from 0 to
\* the item count is accepted.
C8_CreatePositionRange ==
  \A p \in Procs :
    LET o == ops[p] IN
    (/\ OpDone(o) /\ o.kind = "create" /\ ~o.failed
     /\ ValidTitle(o.a.title) /\ o.a.board \in boards
     /\ o.a.posKind = "int" /\ o.a.pos >= 0)
      => IF o.a.pos > Count(o.pre, o.a.board)
         THEN IsInvalidArgument(o.err) /\ tasks = o.pre
         ELSE o.err = ""

\* C9 (as claimed): a deletion of an id that is not stored reports NotFound
\* and leaves the store as it was.
C9_DeleteAbsent ==
  \A p \in Procs :
    LET o == ops[p] IN
    (/\ OpDone(o) /\ o.kind = "delete" /\ ~o.failed
     /\ o.a.id \notin DOMAIN o.pre)
      => IsNotFound(o.err) /\ tasks = o.pre

\* C10 (as claimed): a deletion of the item at position d removes it and
\* moves every other item of its board at a position > d down by one.
C10_DeleteRenumbers ==
  \A p \in Procs :
    LET o == ops[p] IN
    (/\ OpDone(o) /\ o.kind = "delete" /\ ~o.failed
     /\ o.a.id \in DOMAIN o.pre)
      => /\ o.a.id \notin DOMAIN tasks
         /\ \A i \in IdsOf(o.pre, o.pre[o.a.id].board_id) \ {o.a.id} :
              /\ i \in DOMAIN tasks
              /\ tasks[i].position =
                   o.pre[i].position
                   - (IF o.pre[i].position > o.pre[o.a.id].position THEN 1 ELSE 0)

\* C11: a deletion of a stored item leaves every item of the other boards as
\* it was: same id, title, position and board.
C11_DeleteOtherBoards ==
  \A p \in Procs :
    LET o == ops[p] IN
    (/\ OpDone(o) /\ o.kind = "delete"
     /\ o.a.id \in DOMAIN o.pre)
      => \A i \in DOMAIN o.pre :
           o.pre[i].board_id # o.pre[o.a.id].board_id
             => i \in DOMAIN tasks /\ tasks[i] = o.pre[i]

\* a deletion has removed an item of a board while another board holds an item
\* with a larger id
C11_Witness ==
  \E p \in Procs :
    /\ OpDone(ops[p]) /\ ops[p].kind = "delete" /\ ops[p].err = ""
    /\ ops[p].a.id \in DOMAIN ops[p].pre
    /\ ops[p].a.id \notin DOMAIN tasks
    /\ \E i \in DOMAIN tasks :
         /\ i > ops[p].a.id
         /\ tasks[i].board_id # ops[p].pre[ops[p].a.id].board_id

\* C12: a swap of two stored items that succeeds gives each the position the
\* other had; their boards and titles, and every other item, stay as they were.
C12_SwapExchanges ==
  \A p \in Procs :
    LET o == ops[p]
        a == o.a.id
        b == o.a.id2
    IN
    (/\ OpDone(o) /\ o.kind = "reorder" /\ ~o.failed
     /\ a \in DOMAIN o.pre /\ b \in DOMAIN o.pre)
      => /\ o.err = ""
         /\ DOMAIN tasks = DOMAIN o.pre
         /\ tasks[a].position = o.pre[b].position
         /\ tasks[b].position = o.pre[a].position
         /\ \A i \in {a, b} :
              /\ tasks[i].board_id = o.pre[i].board_id
              /\ tasks[i].title = o.pre[i].title
         /\ \A i \in DOMAIN o.pre \ {a, b} : tasks[i] = o.pre[i]

\* a swap of two items of different boards and different positions has
\* completed
C12_Witness ==
  \E p \in Procs :
    LET o == ops[p] IN
    /\ OpDone(o) /\ o.kind = "reorder" /\ o.err = "" /\ ~o.failed
    /\ o.a.id \in DOMAIN o.pre /\ o.a.id2 \in DOMAIN o.pre
    /\ o.pre[o.a.id].board_id # o.pre[o.a.id2].board_id
    /\ o.pre[o.a.id].position # o.pre[o.a.id2].position
    /\ tasks[o.a.id].position = o.pre[o.a.id2].position

\* C13: a swap naming an id that is not stored (ids given, so positive) fails
\* with the not-found error of the missing argument, "Task 1 not found" or,
\* when only the second is missing, "Task 2 not found", and writes nothing.
C13_SwapNotFound ==
  \A p \in Procs :
    LET o == ops[p] IN
    (/\ OpDone(o) /\ o.kind = "reorder" /\ ~o.failed
     /\ o.a.id > 0 /\ o.a.id2 > 0
     /\ (o.a.id \notin DOMAIN o.pre \/ o.a.id2 \notin DOMAIN o.pre))
      => /\ IsNotFound(o.err)
         /\ o.err = (IF o.a.id \notin DOMAIN o.pre THEN ErrTask1 ELSE ErrTask2)
         /\ o.writes = 0
         /\ tasks = o.pre

\* a swap whose first id is stored and whose second is not has been refused
C13_Witness ==
  \E p \in Procs :
    LET o == ops[p] IN
    /\ OpDone(o) /\ o.kind = "reorder"
    /\ o.a.id \in DOMAIN o.pre
    /\ o.a.id2 > 0 /\ o.a.id2 \notin DOMAIN o.pre
    /\ o.err = ErrTask2

\* C14: two successive swaps of the same two stored items, both succeeding,
\* leave the store as it was before the first.
C14_SwapTwice ==
  (/\ \A p \in Procs : OpDone(ops[p]) /\ ops[p].kind = "reorder" /\ ~ops[p].failed
   /\ ops[2].a.id = ops[1].a.id /\ ops[2].a.id2 = ops[1].a.id2
   /\ ops[1].a.id \in DOMAIN ops[1].pre /\ ops[1].a.id2 \in DOMAIN ops[1].pre)
    => /\ \A p \in Procs : ops[p].err = ""
       /\ tasks = ops[1].pre

\* two items at different positions have been swapped and swapped back
C14_Witness ==
  /\ \A p \in Procs : OpDone(ops[p]) /\ ops[p].kind = "reorder" /\ ops[p].err = ""
  /\ ops[2].a.id = ops[1].a.id /\ ops[2].a.id2 = ops[1].a.id2
  /\ ops[1].a.id \in DOMAIN ops[1].pre /\ ops[1].a.id2 \in DOMAIN ops[1].pre
  /\ ops[1].pre[ops[1].a.id].position # ops[1].pre[ops[1].a.id2].position
  /\ ops[2].pre # ops[1].pre
  /\ ops[2].writes = 2
  /\ tasks = ops[1].pre

\* C15 (as claimed): a move within a board to a position at or above the
\* board's item count fails with InvalidArgument and changes no position.
C15_MoveRange ==
  \A p \in Procs :
    LET o == ops[p] IN
    (/\ OpDone(o) /\ o.kind = "reorderByPosition" /\ ~o.failed
     /\ o.a.id \in DOMAIN o.pre /\ o.a.posKind = "int"
     /\ o.a.pos >= Count(o.pre, o.pre[o.a.id].board_id))
      => IsInvalidArgument(o.err) /\ SamePlaces(o)

\* C16: a move within a board to the position the item already has succeeds,
\* issues no store write and leaves every item as it was.
C16_MoveIdentity ==
  \A p \in Procs :
    LET o == ops[p] IN
    (/\ OpDone(o) /\ o.kind = "reorderByPosition" /\ ~o.failed
     /\ o.a.id \in DOMAIN o.pre /\ o.a.posKind = "int"
     /\ o.a.pos = o.pre[o.a.id].position)
      => /\ o.err = ""
         /\ o.writes = 0
         /\ tasks = o.pre

\* a move of a stored item to its own position has completed
C16_Witness ==
  \E p \in Procs :
    LET o == ops[p] IN
    /\ OpDone(o) /\ o.kind = "reorderByPosition" /\ o.err = ""
    /\ o.a.id \in DOMAIN o.pre /\ o.a.posKind = "int"
    /\ o.a.pos = o.pre[o.a.id].position
    /\ Count(o.pre, o.pre[o.a.id].board_id) > 1

\* C17: a move within a board that succeeds puts the item at newPosition; when
\* newPosition < oldPosition every other item of the board at a position in
\* [newPosition, oldPosition) goes up by one, when newPosition > oldPosition
\* every other item at a position in (oldPosition, newPosition] goes down by
\* one; the remaining items of the board keep their position.
C17_MoveShifts ==
  \A p \in Procs :
    LET o == ops[p]
        new == o.a.pos
        old == o.pre[o.a.id].position
        b == o.pre[o.a.id].board_id
    IN
    (/\ OpDone(o) /\ o.kind = "reorderByPosition" /\ ~o.failed
     /\ o.a.id \in DOMAIN o.pre /\ o.a.posKind = "int")
      => /\ o.err = ""
         /\ DOMAIN tasks = DOMAIN o.pre
         /\ tasks[o.a.id].position = new
         /\ tasks[o.a.id].board_id = b
         /\ \A i \in IdsOf(o.pre, b) \ {o.a.id} :
              /\ tasks[i].board_id = b
              /\ tasks[i].position =
                   IF new < old /\ new <= o.pre[i].position /\ o.pre[i].position < old
                   THEN o.pre[i].position + 1
                   ELSE IF new > old /\ old < o.pre[i].position
                           /\ o.pre[i].position <= new
                   THEN o.pre[i].position - 1
                   ELSE o.pre[i].position

\* the board A0, B1, C2 after C has been moved to 0: A1, B2, C0
C17_Witness ==
  \E p \in Procs :
    LET o == ops[p] IN
    /\ OpDone(o) /\ o.kind = "reorderByPosition" /\ o.err = ""
    /\ DOMAIN o.pre = 1 .. 3
    /\ \A i \in 1 .. 3 : o.pre[i].board_id = 1 /\ o.pre[i].position = i - 1
    /\ o.a.id = 3 /\ o.a.posKind = "int" /\ o.a.pos = 0
    /\ tasks[1].position = 1 /\ tasks[2].position = 2 /\ tasks[3].position = 0

\* the ids of board b in the order of their positions (b dense in s)
OrderOf(s, b) ==
  [k \in 1 .. Count(s, b) |-> CHOOSE i \in IdsOf(s, b) : s[i].position = k - 1]

\* the list q without x
Without(q, x) == SelectSeq(q, LAMBDA y : y # x)

\* the list q with x inserted at index k, counted from 0
InsertAt(q, k, x) == SubSeq(q, 1, k) \o <<x>> \o SubSeq(q, k + 1, Len(q))

\* C18: on a dense board and for a newPosition below its item count, the
\* board after a move is dense and its order by position is the former order
\* with the item taken out and put back at index newPosition.
C18_MoveIsReinsert ==
  \A p \in Procs :
    LET o == ops[p]
        b == o.pre[o.a.id].board_id
    IN
    (/\ OpDone(o) /\ o.kind = "reorderByPosition" /\ ~o.failed
     /\ o.a.id \in DOMAIN o.pre /\ o.a.posKind = "int"
     /\ Dense(o.pre, b)
     /\ 0 <= o.a.pos /\ o.a.pos < Count(o.pre, b))
      => /\ o.err = ""
         /\ Dense(tasks, b)
         /\ OrderOf(tasks, b) =
              InsertAt(Without(OrderOf(o.pre, b), o.a.id), o.a.pos, o.a.id)

\* the first item of a dense board of three has been moved to the last place
C18_Witness ==
  \E p \in Procs :
    LET o == ops[p]
        b == o.pre[o.a.id].board_id
    IN
    /\ OpDone(o) /\ o.kind = "reorderByPosition" /\ o.err = "" /\ ~o.failed
    /\ o.a.id \in DOMAIN o.pre /\ o.a.posKind = "int"
    /\ Dense(o.pre, b) /\ Count(o.pre, b) = 3
    /\ o.pre[o.a.id].position = 0 /\ o.a.pos = 2
    /\ tasks[o.a.id].position = 2
    /\ o.writes = 2

\* C19: a relocation of a stored item to the board it is on fails with the
\* invalid-argument error "Task is already in this board" and changes no
\* stored item.
C19_RelocateSameBoard ==
  \A p \in Procs :
    LET o == ops[p] IN
    (/\ OpDone(o) /\ o.kind = "move" /\ ~o.failed
     /\ o.a.id \in DOMAIN o.pre
     /\ o.a.board = o.pre[o.a.id].board_id)
      => /\ IsInvalidArgument(o.err)
         /\ o.err = ErrSameBoard
         /\ o.writes = 0
         /\ tasks = o.pre

\* a relocation of a stored item to its own board, at a position other than
\* its own, has been refused
C19_Witness ==
  \E p \in Procs :
    LET o == ops[p] IN
    /\ OpDone(o) /\ o.kind = "move" /\ o.err = ErrSameBoard
    /\ o.a.id \in DOMAIN o.pre
    /\ o.a.board = o.pre[o.a.id].board_id
    /\ o.a.posKind = "int" /\ o.a.pos >= 0 /\ o.a.pos # o.pre[o.a.id].position

\* C20 (as claimed): a relocation of an item that is not stored, or to a board
\* that is not stored, fails with NotFound and changes no stored item.
C20_RelocateNotFound ==
  \A p \in Procs :
    LET o == ops[p] IN
    (/\ OpDone(o) /\ o.kind = "move" /\ ~o.failed
     /\ o.a.id > 0 /\ o.a.board > 0
     /\ (o.a.id \notin DOMAIN o.pre \/ o.a.board \notin boards))
      => IsNotFound(o.err) /\ tasks = o.pre

\* C21 (as claimed): a relocation with newPosition omitted stores the item on
\* the target board at the position equal to the number of items the target
\* board held before the call; into an empty board that is position 0.
C21_RelocateAppends ==
  \A p \in Procs :
    LET o == ops[p] IN
    (/\ OpDone(o) /\ o.kind = "move" /\ ~o.failed /\ o.err = ""
     /\ o.a.posKind = "undefined"
     /\ o.a.id \in DOMAIN o.pre /\ o.a.id \in DOMAIN tasks
     /\ o.a.board \in boards
     /\ Dense(o.pre, o.a.board))
      => /\ tasks[o.a.id].board_id = o.a.board
         /\ tasks[o.a.id].position = Count(o.pre, o.a.board)

\* the items of board b in s other than id
Remaining(s, b, id) == IdsOf(s, b) \ {id}

\* the number of items of R placed before item i in s
RankIn(s, R, i) == Cardinality({j \in R : s[j].position < s[i].position})

\* C22 (as claimed): after a successful relocation the k items remaining on
\* the source board have positions exactly 0 .. k-1, in the order of their
\* positions before the call.
C22_SourceRenumbered ==
  \A p \in Procs :
    LET o == ops[p] IN
    (/\ OpDone(o) /\ o.kind = "move" /\ ~o.failed /\ o.err = ""
     /\ o.a.id \in DOMAIN o.pre
     /\ Dense(o.pre, o.pre[o.a.id].board_id))
      => LET R == Remaining(o.pre, o.pre[o.a.id].board_id, o.a.id) IN
         \A i \in R :
           /\ i \in DOMAIN tasks
           /\ tasks[i].board_id = o.pre[i].board_id
           /\ tasks[i].position = RankIn(o.pre, R, i)

\* C23 (as claimed): a relocation with an explicit newPosition p shifts every
\* item of the target board placed at p or later up by one, so that no two
\* items of the target board share a position afterwards.
C23_TargetShifted ==
  \A p \in Procs :
    LET o == ops[p] IN
    (/\ OpDone(o) /\ o.kind = "move" /\ ~o.failed /\ o.err = ""
     /\ o.a.posKind = "int" /\ o.a.pos >= 0
     /\ o.a.id \in DOMAIN o.pre
     /\ o.a.board \in boards
     /\ Dense(o.pre, o.a.board)
     /\ o.a.pos <= Count(o.pre, o.a.board))
      => /\ \A i \in IdsOf(o.pre, o.a.board) :
              /\ i \in DOMAIN tasks
              /\ tasks[i].position =
                   IF o.pre[i].position >= o.a.pos
                   THEN o.pre[i].position + 1 ELSE o.pre[i].position
         /\ \A i, j \in IdsOf(tasks, o.a.board) :
              tasks[i].position = tasks[j].position => i = j

\* C24: a relocation that succeeds returns an item with the id and the title
\* of the relocated item, whose board is the target board and whose position
\* is the position stored for the item when the operation completes.
C24_RelocateReturns ==
  \A p \in Procs :
    LET o == ops[p] IN
    (/\ OpDone(o) /\ o.kind = "move" /\ o.err = ""
     /\ o.a.id \in DOMAIN o.pre)
      => /\ o.a.id \in DOMAIN tasks
         /\ o.ret.id = o.a.id
         /\ o.ret.title = o.pre[o.a.id].title
         /\ o.ret.board_id = o.a.board
         /\ tasks[o.a.id].board_id = o.a.board
         /\ o.ret.position = tasks[o.a.id].position

\* a relocation with newPosition omitted has succeeded after renumbering the
\* source board
C24_Witness ==
  \E p \in Procs :
    LET o == ops[p] IN
    /\ OpDone(o) /\ o.kind = "move" /\ o.err = "" /\ ~o.failed
    /\ o.a.id \in DOMAIN o.pre
    /\ o.a.posKind = "undefined"
    /\ o.updateCount = 2
    /\ o.ret.board_id # o.pre[o.a.id].board_id
    /\ o.ret.position = 1

\* C25: relocating an item from board P to board Q and then back to P, both
\* times with newPosition omitted, leaves the item stored on P with the same
\* id and title, and the set of stored item ids unchanged.
C25_RelocateRoundTrip ==
  LET o1 == ops[1]
      o2 == ops[2]
  IN
  (/\ OpDone(o1) /\ o1.kind = "move" /\ o1.err = ""
   /\ OpDone(o2) /\ o2.kind = "move" /\ o2.err = ""
   /\ o1.a.posKind = "undefined" /\ o2.a.posKind = "undefined"
   /\ o1.a.id \in DOMAIN o1.pre /\ o2.a.id = o1.a.id
   /\ o1.a.board # o1.pre[o1.a.id].board_id
   /\ o2.a.board = o1.pre[o1.a.id].board_id)
    => /\ DOMAIN tasks = DOMAIN o1.pre
       /\ tasks[o1.a.id].board_id = o1.pre[o1.a.id].board_id
       /\ tasks[o1.a.id].title = o1.pre[o1.a.id].title

\* an item has gone from board 1 to board 2 and back, and is not where it was
C25_Witness ==
  LET o1 == ops[1]
      o2 == ops[2]
  IN
  /\ OpDone(o1) /\ o1.kind = "move" /\ o1.err = "" /\ ~o1.failed
  /\ OpDone(o2) /\ o2.kind = "move" /\ o2.err = "" /\ ~o2.failed
  /\ o1.a.id \in DOMAIN o1.pre /\ o2.a.id = o1.a.id
  /\ o1.pre[o1.a.id].board_id = 1 /\ o1.a.board = 2 /\ o2.a.board = 1
  /\ o2.pre[o1.a.id].board_id = 2
  /\ tasks[o1.a.id].board_id = 1
  /\ tasks[o1.a.id].position # o1.pre[o1.a.id].position

\* C26 (as claimed): store failures are never swallowed: a request during
\* which a store call returned an error reports an error to its caller and
\* never reports success.
C26_FailuresSurface ==
  \A p \in Procs :
    LET o == ops[p] IN
    (OpDone(o) /\ o.failed) => o.err # ""

C28_StatusByErrorClass ==
  \A p \in Procs :
    LET o == ops[p] IN
    (OpDone(o) /\ o.a.http /\ o.err # "")
      => /\ IsInvalidArgument(o.err) => o.status = 400
         /\ IsNotFound(o.err) => o.status = 404
         /\ o.err = ErrSqlite => o.status = 500

\* C29 (as claimed): a PUT /:id/reorder-position request for a stored item
\* and an integer newPosition within the item's board is answered 200 and the
\* item is stored at newPosition.
C29_MoveThroughController ==
  \A p \in Procs :
    LET o == ops[p] IN
    (/\ OpDone(o) /\ o.kind = "reorderByPosition" /\ o.a.http /\ ~o.failed
     /\ o.a.id \in DOMAIN o.pre
     /\ o.a.posKind = "int"
     /\ o.a.pos >= 0 /\ o.a.pos < Count(o.pre, o.pre[o.a.id].board_id))
      => /\ o.status = 200
         /\ o.a.id \in DOMAIN tasks
         /\ tasks[o.a.id].position = o.a.pos

\* the fields of a payload that are not acceptable
InvalidFields(a) ==
  (IF Trim(a.title) = "" THEN {ErrTitle} ELSE {})
  \cup (IF a.posKind # "int" \/ a.pos < 0 THEN {ErrPosition} ELSE {})
  \cup (IF a.board <= 0 THEN {ErrBoardId} ELSE {})

\* the elements of the list q
Range(q) == {q[k] : k \in 1 .. Len(q)}

\* C30: the validator reports all violations at once: the list it returns
\* holds one message for each of title, position and board that is invalid,
\* and the payload is accepted exactly when the list is empty.
C30_ValidatorAggregates ==
  \A p \in Procs :
    LET o == ops[p] IN
    (o.kind = "create" /\ o.a.http)
      => /\ Range(o.errors) = InvalidFields(o.a)
         /\ Len(o.errors) = Cardinality(InvalidFields(o.a))
         /\ (o.err = ErrValidation /\ o.status = 400) <=> o.errors # << >>

\* a payload with all three fields invalid has been refused with three messages
C30_Witness ==
  \E p \in Procs :
    LET o == ops[p] IN
    /\ OpDone(o) /\ o.kind = "create" /\ o.a.http
    /\ o.status = 400 /\ o.calls = 0
    /\ o.errors = <<ErrTitle, ErrPosition, ErrBoardId>>

\* C34 (as claimed): every repository method invokes its completion callback
\* at most once per call, whichever store calls succeed or fail.
C34_CallbackOnce ==
  \A p \in Procs : ops[p].calls <= 1

\* request p has been received
Started(p) == ops[p].kind # "idle"

\* the caller of request p has been given an outcome
Reported(p) == ops[p].pc = "done" \/ ops[p].calls > 0

\* C31: every repository method that is called eventually reports an outcome
\* to its caller, provided every store call it issues eventually completes.
C31_EveryCallReports ==
  \A p \in Procs : Started(p) ~> Reported(p)

\* a relocation has reported success after renumbering two items of the
\* source board
C31_Witness ==
  \E p \in Procs :
    /\ ops[p].kind = "move" /\ Reported(p) /\ ops[p].err = ""
    /\ Len(ops[p].rows) = 2 /\ ops[p].updateCount = 2

\* C32: reading the items of a board returns exactly the stored items of
\* that board, each once (none when the board has none), in ascending order
\* of position.
C32_ReadBoardOrdered ==
  \A p \in Procs :
    LET o == ops[p] IN
    (OpDone(o) /\ o.kind = "getByBoardId" /\ o.err = "")
      => /\ tasks = o.pre
         /\ Len(o.rows) = Count(tasks, o.a.board)
         /\ {o.rows[k] : k \in 1 .. Len(o.rows)} = IdsOf(tasks, o.a.board)
         /\ \A k \in 1 .. Len(o.rows) : \A l \in 1 .. Len(o.rows) :
              k < l => tasks[o.rows[k]].position < tasks[o.rows[l]].position
                       \/ tasks[o.rows[k]].position = tasks[o.rows[l]].position

\* a board whose newest item was created in front of an older one has been
\* read, while another board holds an item
C32_Witness ==
  \E p \in Procs :
    LET o == ops[p] IN
    /\ OpDone(o) /\ o.kind = "getByBoardId" /\ o.err = ""
    /\ Len(o.rows) = 2
    /\ o.rows[1] > o.rows[2]
    /\ Cardinality(DOMAIN tasks) > 2

\* C33 (as claimed): TaskRepository.create, called without the validator in
\* front of it, rejects every payload the validator rejects and inserts no
\* item for it.
C33_CreateRechecks ==
  \A p \in Procs :
    LET o == ops[p] IN
    (/\ OpDone(o) /\ o.kind = "create" /\ ~o.a.http
     /\ ValidateRequest(o.a) # << >>)
      => o.err # "" /\ tasks = o.pre

\* C35: from a store in which every board is dense, swaps of two items of
\* one board and moves to a position 0 <= newPosition < item count, each run
\* to completion before the next and with no store failure, keep every board
\* dense.
C35_ArrangeKeepsDense ==
  Quiet => AllDense(tasks)

\* a move has completed after an earlier call had taken item 1 from position 0
C35_Witness ==
  /\ OpDone(ops[1]) /\ opCount = 2
  /\ ops[1].kind = "reorderByPosition"
  /\ ops[1].pre[1].position # 0
  /\ tasks # ops[1].pre
  /\ \E b \in BoardIds : Count(tasks, b) = 3

\* the stored (id, title) pairs of s
IdTitles(s) == {<<i, s[i].title>> : i \in DOMAIN s}

\* C36: a swap, a move within a board and a relocation never create or delete
\* an item and never change a title: the stored (id, title) pairs are the same
\* before, during and after the call, whether it succeeds or fails.
C36_ArrangeKeepsItems ==
  \A p \in Procs :
    LET o == ops[p] IN
    o.kind \in {"reorder", "reorderByPosition", "move"}
      => IdTitles(tasks) = IdTitles(o.pre)

\* a relocation has failed after its first store calls had changed positions
\* and boards
C36_Witness ==
  \E p \in Procs :
    LET o == ops[p] IN
    /\ OpDone(o) /\ o.kind = "move" /\ o.failed
    /\ o.writes >= 2
    /\ tasks # o.pre

\* C37: a move within a board changes no item's board and changes positions
\* of items of the moved item's board only; a relocation changes the board of
\* the relocated item only and leaves every item of the boards other than
\* the source and the target as it was.
C37_ArrangeFrame ==
  \A p \in Procs :
    LET o == ops[p] IN
    /\ (o.kind = "reorderByPosition" /\ o.a.id \in DOMAIN o.pre)
         => \A i \in DOMAIN o.pre :
              /\ i \in DOMAIN tasks
              /\ tasks[i].board_id = o.pre[i].board_id
              /\ o.pre[i].board_id # o.pre[o.a.id].board_id => tasks[i] = o.pre[i]
    /\ (o.kind = "move" /\ o.a.id \in DOMAIN o.pre)
         => \A i \in DOMAIN o.pre \ {o.a.id} :
              /\ i \in DOMAIN tasks
              /\ tasks[i].board_id = o.pre[i].board_id
              /\ o.pre[i].board_id \notin {o.pre[o.a.id].board_id, o.a.board}
                   => tasks[i] = o.pre[i]

\* an item has been relocated from a board that keeps an item to another
\* board, while a third board holds an item
C37_Witness ==
  \E p \in Procs :
    LET o == ops[p] IN
    /\ OpDone(o) /\ o.kind = "move" /\ o.err = "" /\ ~o.failed
    /\ o.a.id \in DOMAIN o.pre
    /\ o.updateCount >= 1
    /\ tasks[o.a.id].board_id = o.a.board
    /\ \E i \in DOMAIN tasks :
         tasks[i].board_id \notin {o.pre[o.a.id].board_id, o.a.board}

\* the number of items of S placed at v in s
PlacedAt(s, S, v) == Cardinality({i \in S : s[i].position = v})

\* C38 (as claimed): when two concurrent swaps share an item, swap(a, b) and
\* swap(b, c) in one dense board, then under every interleaving of their store
\* calls the positions held by a, b and c after both have completed are,
\* counted with multiplicity, the positions held before.
C38_ConcurrentSwapsPermute ==
  LET o1 == ops[1]
      o2 == ops[2]
      S == {o1.a.id, o1.a.id2, o2.a.id2}
  IN
  (/\ OpDone(o1) /\ o1.kind = "reorder" /\ o1.err = ""
   /\ OpDone(o2) /\ o2.kind = "reorder" /\ o2.err = ""
   /\ o1.a.id2 = o2.a.id
   /\ Cardinality(S) = 3
   /\ \A i \in S : o1.pre[i].board_id = o1.pre[o1.a.id].board_id
   /\ AllDense(o1.pre))
    => \A i \in S :
         PlacedAt(tasks, S, o1.pre[i].position) = PlacedAt(o1.pre, S, o1.pre[i].position)

\* the position argument of request o, where it has one, is a non-negative
\* integer
PositionArgNonNegative(o) ==
  o.a.posKind = "int" => o.a.pos >= 0

\* C39 (as claimed): no stored position is ever negative, whatever calls with
\* non-negative position arguments are made and however their store calls
\* interleave.
C39_PositionsNonNegative ==
  (\A p \in Procs : PositionArgNonNegative(ops[p]))
    => \A i \in DOMAIN tasks : tasks[i].position >= 0

\* two concurrent moves within a board have completed and an item stands
\* lower than it did
C39_Witness ==
  /\ \A p \in Procs :
       /\ OpDone(ops[p]) /\ ops[p].kind = "reorderByPosition" /\ ops[p].err = ""
       /\ ops[p].writes = 2
       /\ ops[p].a.pos > ops[p].pre[ops[p].a.id].position
  /\ ops[1].a.id # ops[2].a.id
  /\ \E i \in DOMAIN tasks : tasks[i].position < ops[1].pre[i].position

\* C40 (as claimed): a relocation request through the controller whose
\* newPosition is null is handled like one without newPosition: for a stored
\* item and a different stored board it succeeds, the item is stored on the
\* target board, and no null position is handed to the store.
C40_NullPositionAppends ==
  \A p \in Procs :
    LET o == ops[p] IN
    (/\ OpDone(o) /\ o.kind = "move" /\ o.a.http /\ ~o.failed
     /\ o.a.posKind = "null"
     /\ o.a.id \in DOMAIN o.pre
     /\ o.a.board \in boards
     /\ o.a.board # o.pre[o.a.id].board_id)
      => /\ o.err = "" /\ o.status = 200
         /\ tasks[o.a.id].board_id = o.a.board

====
